---- MODULE Spec2Model ----
(***************************************************************************)
(* Balance-resolution engine of main.py: evm_checker splits the wallet     *)
(* list into chunks, every chunk resolves its wallets one after another,   *)
(* every wallet fans out one get_balance_for_network per configured        *)
(* network, and every attempt of a fetch runs under REQUEST_SEMAPHORE and  *)
(* wait_for_rate_limit.  asyncio is cooperative: an action is the code     *)
(* one task runs between two suspension points.                            *)
(***************************************************************************)
EXTENDS Integers, Sequences, FiniteSets, TLC

\* ------------------------------------------------------------------ bounds
MaxLoad == 6             \* wallets x configured endpoints of one run
MaxCalls == 4            \* calls of get_next_rpc per network when the rotator runs alone
MaxLiveLoad == 4         \* wallets x configured endpoints of one run checked for termination
MaxWallets == 12         \* wallets of a list that is only split into chunks

\* ------------------------------------------------------- program constants
MIN_REQUEST_INTERVAL == 3
SEMAPHORE_PERMITS == 3
TARGET_CHUNKS == 5
DECIMALS == 18

\* time.time().  Times are kept relative to the present: instead of moving the
\* clock, Tick moves every stored time one unit into the past.
now == 0

\* A network that is not a key of last_request_time yet.
None == now - MIN_REQUEST_INTERVAL - 1

\* ------------------------------------------------------------------ values
\* A list item handed to evm_checker: a str (its code points) or another object.
Str(s) == [type |-> "str", chars |-> s]
NoneValue == [type |-> "NoneType", chars |-> <<>>]

Whitespace == {32, 10}

RECURSIVE LStrip(_)
LStrip(s) == IF s # <<>> /\ Head(s) \in Whitespace THEN LStrip(Tail(s)) ELSE s

RECURSIVE RStrip(_)
RStrip(s) ==
    IF s # <<>> /\ s[Len(s)] \in Whitespace THEN RStrip(SubSeq(s, 1, Len(s) - 1)) ELSE s

\* str.strip()
Strip(s) == RStrip(LStrip(s))

\* Decimal as coefficient and exponent: coeff * 10^exp
Decimal(i) == [coeff |-> i, exp |-> 0]
IsPositive(d) == d.coeff > 0

RECURSIVE HexToInt(_)
\* int(text, 16) on a string given by its hexadecimal digits
HexToInt(digits) ==
    IF digits = <<>> THEN 0
    ELSE 16 * HexToInt(SubSeq(digits, 1, Len(digits) - 1)) + digits[Len(digits)]

\* Decimal(balance) / Decimal(10**18)
ToEther(balance) == [coeff |-> balance, exp |-> 0 - DECIMALS]

NetworkBalance(network, balance, token) ==
    [network |-> network, balance |-> balance, token |-> token]

NewWalletBalances(address) == [address |-> address, balances |-> <<>>]

add_balance(wb, network, balance, token) ==
    [wb EXCEPT !.balances = Append(@, NetworkBalance(network, balance, token))]

\* ----------------------------------------------------------- configuration
\* config.toml: an ordered mapping network -> list of RPC URLs.  Every URL
\* comes with the behaviour of the server behind it.
Rpc(url, mode, hex) == [url |-> url, mode |-> mode, hex |-> hex]
Net(name, rpcs) == [name |-> name, rpcs |-> rpcs]

ConfigFailover ==
    << Net("Ethereum", << Rpc("eth-a", "limited", <<>>), Rpc("eth-b", "healthy", <<1, 0>>) >>) >>

ConfigMixed ==
    << Net("Polygon", << Rpc("pol-a", "flaky", <<2>>), Rpc("pol-b", "flaky", <<3>>) >>),
       Net("BSC", << Rpc("bsc-a", "healthy", <<1>>) >>) >>

ConfigThree ==
    << Net("BSC", << Rpc("bsc-a", "healthy", <<1>>) >>),
       Net("Polygon", << Rpc("pol-a", "broken", <<>>) >>),
       Net("Base", << Rpc("base-a", "healthy", <<0>>) >>) >>

ConfigSingle ==
    << Net("Arbitrum", << Rpc("arb-a", "healthy", <<1>>) >>) >>

Configs == {ConfigFailover, ConfigMixed, ConfigThree, ConfigSingle}

ConfigTriple ==
    << Net("Linea", << Rpc("lin-a", "flaky", <<1>>), Rpc("lin-b", "flaky", <<2>>),
                       Rpc("lin-c", "flaky", <<3>>) >>),
       Net("Base", << Rpc("base-a", "flaky", <<1>>) >>) >>

\* ------------------------------------------------------------------- state
VARIABLES
    networks,            \* the loaded configuration (line 69)
    wallets,             \* the argument of evm_checker
    mainPc,              \* position of evm_checker
    wallet_chunks,       \* line 204
    chunk,               \* per chunk task: position, loop index, wallet_balances_list
    fetch,               \* per chunk and network: the running get_balance_for_network
                         \* (permit: it is inside `async with REQUEST_SEMAPHORE`;
                         \* urls: where its session.post calls went so far)
    REQUEST_SEMAPHORE,   \* free permits
    last_request_time,   \* network -> time of the last request (<= now), or None
    current_rpc_index,   \* network -> rotation cursor (0-based)
    report,              \* BalanceReport.wallets
    returned_urls,       \* network -> what the calls of get_next_rpc returned so far
    completed            \* the chunk tasks that have returned, in the order they did

vars == << networks, wallets, mainPc, wallet_chunks, chunk, fetch, REQUEST_SEMAPHORE,
           last_request_time, current_rpc_index, report, returned_urls, completed >>

NetIds == 1..Len(networks)
ChunkIds == 1..Len(wallet_chunks)
FetchIds == ChunkIds \X NetIds
NetworkNames == {networks[n].name : n \in NetIds}

NetOf(name) == CHOOSE n \in NetIds : networks[n].name = name
rpc_list(name) == networks[NetOf(name)].rpcs
Urls(name) == [i \in 1..Len(rpc_list(name)) |-> rpc_list(name)[i].url]
RpcOf(name, url) ==
    rpc_list(name)[CHOOSE i \in 1..Len(rpc_list(name)) : rpc_list(name)[i].url = url]

\* ---------------------------------------------------------------- responses
\* What one session.post can produce: an exception of the transport (timeout,
\* connection failure), or a response with a status code, a text and a body.
TransportError == [kind |-> "raise", status |-> 0, rate_limit_text |-> FALSE,
                   json |-> "none", hex |-> <<>>]
Http(status, rate_limit_text, json, hex) ==
    [kind |-> "response", status |-> status, rate_limit_text |-> rate_limit_text,
     json |-> json, hex |-> hex]

ValidResponse(hex) == Http(200, FALSE, "result", hex)

FailingResponses ==
    { TransportError,
      Http(429, FALSE, "none", <<>>),
      Http(200, TRUE, "error_other", <<>>),
      Http(200, FALSE, "error_rate", <<>>),
      Http(200, FALSE, "error_other", <<>>),
      Http(200, FALSE, "invalid", <<>>),
      Http(200, FALSE, "no_result", <<>>),
      Http(200, FALSE, "result", <<>>),
      Http(500, FALSE, "none", <<>>),
      Http(204, FALSE, "none", <<>>) }

HexValues == {<<0>>, <<1>>, <<2>>, <<3>>, <<1, 0>>}

Responses == FailingResponses \cup {ValidResponse(hex) : hex \in HexValues}

\* The responses the server behind an endpoint can give.
ResponsesOf(rpc) ==
    CASE rpc.mode = "healthy" -> {ValidResponse(rpc.hex)}
      [] rpc.mode = "limited" -> {Http(429, FALSE, "none", <<>>)}
      [] rpc.mode = "broken" -> FailingResponses
      [] OTHER -> FailingResponses \cup {ValidResponse(rpc.hex)}

\* Classes derived from Exception: what `except Exception` catches.
ExceptionClasses ==
    {"Exception", "RequestsError", "HTTPError", "JSONDecodeError", "KeyError",
     "ValueError", "AttributeError"}

Rotate == [act |-> "rotate", exc |-> "", value |-> Decimal(0)]
Raise(exc) == [act |-> "raise", exc |-> exc, value |-> Decimal(0)]
Return(value) == [act |-> "return", exc |-> "", value |-> value]
FallThrough == [act |-> "next", exc |-> "", value |-> Decimal(0)]

\* Lines 119-145: what one attempt does with the outcome of session.post.
Classify(r) ==
    IF r.kind = "raise" THEN Raise("RequestsError")
    ELSE IF r.status = 429 \/ r.rate_limit_text THEN Rotate
    ELSE IF r.status = 200 THEN
        CASE r.json = "invalid" -> Raise("JSONDecodeError")
          [] r.json = "error_rate" -> Rotate
          [] r.json = "error_other" -> Raise("Exception")
          [] r.json = "no_result" -> Raise("KeyError")
          [] OTHER -> IF r.hex = <<>> THEN Raise("ValueError")
                      ELSE Return(ToEther(HexToInt(r.hex)))
    ELSE IF r.status >= 400 THEN Raise("HTTPError")
    ELSE FallThrough

\* A handler that names the HTTP error only.
FetchCatches_HttpOnly(exc) == exc = "HTTPError"

\* Line 147: except Exception
FetchCatches(exc) == exc \in ExceptionClasses

\* A handler that names ValueError only.
WalletCatches_ValueOnly(exc) == exc = "ValueError"

\* Line 189: except Exception
WalletCatches(exc) == exc \in ExceptionClasses

\* -------------------------------------------------------- endpoint rotator
\* A rotator that returns the endpoint it has moved to.
get_next_rpc_Moved(network) ==
    LET current_index == current_rpc_index[network]
        next_index == (current_index + 1) % Len(rpc_list(network))
    IN  [url |-> Urls(network)[next_index + 1], index |-> next_index]

\* get_next_rpc: the URL it returns and the cursor it leaves behind.
get_next_rpc(network) ==
    LET current_index == current_rpc_index[network]
        next_index == (current_index + 1) % Len(rpc_list(network))
    IN  [url |-> Urls(network)[current_index + 1], index |-> next_index]

\* ------------------------------------------------------------ batch chunks
\* Floor instead of ceiling division.
chunk_size_Floor(ws) == Len(ws) \div TARGET_CHUNKS

\* One wallet per chunk, however long the list is.
chunk_size_One(ws) == IF ws = <<>> THEN 0 ELSE 1

chunk_size(ws) == (Len(ws) + 4) \div TARGET_CHUNKS

Min(a, b) == IF a < b THEN a ELSE b

\* Wallets dealt out to the chunks in turn: wallets[k::count].
WalletChunks_Dealt(ws) ==
    LET cs == chunk_size(ws)
        count == (Len(ws) + cs - 1) \div cs
    IN  [k \in 1..count |->
            [j \in 1..((Len(ws) - k) \div count + 1) |-> ws[k + (j - 1) * count]]]

\* Slices that end one item early: wallets[i:i + chunk_size - 1].
WalletChunks_ShortSlice(ws) ==
    LET cs == chunk_size(ws)
        count == (Len(ws) + cs - 1) \div cs
    IN  [k \in 1..count |-> SubSeq(ws, (k - 1) * cs + 1, Min(k * cs - 1, Len(ws)))]

\* Line 204: [wallets[i:i + chunk_size] for i in range(0, len(wallets), chunk_size)]
WalletChunks(ws) ==
    LET cs == chunk_size(ws)
        count == (Len(ws) + cs - 1) \div cs
    IN  [k \in 1..count |-> SubSeq(ws, (k - 1) * cs + 1, Min(k * cs, Len(ws)))]

\* A mapping that compares with the lower-case names of the thresholds table.
CoinSymbol_LowerCase(network_name) ==
    IF network_name = "bsc" THEN "BNB"
    ELSE IF network_name = "polygon" THEN "POL" ELSE "ETH"

\* Line 181
CoinSymbol(network_name) ==
    IF network_name = "BSC" THEN "BNB"
    ELSE IF network_name = "Polygon" THEN "POL" ELSE "ETH"

RECURSIVE AddBalances_PositiveOnly(_, _, _)
\* add_balance moved under `if balance > 0`.
AddBalances_PositiveOnly(wb, balances, n) ==
    IF n > Len(networks) \/ n > Len(balances) THEN wb
    ELSE AddBalances_PositiveOnly(
             IF IsPositive(balances[n])
             THEN add_balance(wb, networks[n].name, balances[n], CoinSymbol(networks[n].name))
             ELSE wb,
             balances, n + 1)

RECURSIVE AddBalances(_, _, _)
\* Lines 180-185: zip(networks.items(), balances), one add_balance per pair
AddBalances(wb, balances, n) ==
    IF n > Len(networks) \/ n > Len(balances) THEN wb
    ELSE AddBalances(add_balance(wb, networks[n].name, balances[n],
                                 CoinSymbol(networks[n].name)),
                     balances, n + 1)

\* Lines 191-192
ErrorWallet(wallet, exc) ==
    add_balance(NewWalletBalances(wallet), "ERROR", Decimal(0), "Error: " \o exc)

RECURSIVE Flatten_LastFirst(_)
\* The results of the chunks taken from the last task to the first.
Flatten_LastFirst(chunks_results) ==
    IF chunks_results = <<>> THEN <<>>
    ELSE Flatten_LastFirst(Tail(chunks_results)) \o Head(chunks_results)

RECURSIVE Flatten(_)
\* Lines 216-218: every wallet of every chunk result, in the order of the results
Flatten(chunks_results) ==
    IF chunks_results = <<>> THEN <<>>
    ELSE Head(chunks_results) \o Flatten(Tail(chunks_results))

\* -------------------------------------------------------------------- inputs
\* The i-th line of the wallet file; every second one carries whitespace.
Address(i) == IF i % 2 = 0 THEN <<32, 96 + i, 10>> ELSE <<96 + i>>

\* A wallet list of the given length whose item at position bad (if any) is not a str.
WalletList(length, bad) ==
    [i \in 1..length |-> IF i = bad THEN NoneValue ELSE Str(Address(i))]

NoChunk == [pc |-> "loop", i |-> 1, wallet_balances_list |-> <<>>]
NoFetch == [pc |-> "idle", attempt |-> 0, rpc_url |-> "", permit |-> FALSE, wake |-> 0,
            ret |-> Decimal(0), urls |-> <<>>]

RECURSIVE Endpoints(_)
\* The number of endpoints of a configuration.
Endpoints(cfg) == IF cfg = <<>> THEN 0 ELSE Len(Head(cfg).rpcs) + Endpoints(Tail(cfg))

Init ==
    /\ networks \in Configs
    /\ \E length \in 0..MaxLoad, bad \in 0..MaxLoad :
          /\ length * Endpoints(networks) <= MaxLoad
          /\ bad <= length
          /\ wallets = WalletList(length, bad)
    /\ mainPc = "call"
    /\ wallet_chunks = <<>>
    /\ chunk = <<>>
    /\ fetch = <<>>
    /\ REQUEST_SEMAPHORE = SEMAPHORE_PERMITS
    /\ last_request_time = [name \in NetworkNames |-> None]
    /\ current_rpc_index = [name \in NetworkNames |-> 0]   \* lines 79-80: a missing key reads as 0
    /\ report = <<>>
    /\ returned_urls = [name \in NetworkNames |-> <<>>]
    /\ completed = <<>>

\* ---------------------------------------------------------------- evm_checker
\* Lines 200-212: build the chunks and start one process_wallet_chunk per chunk.
\* range(0, 0, 0) raises ValueError on an empty list.
StartBatch ==
    /\ mainPc = "call"
    /\ IF chunk_size(wallets) = 0
       THEN /\ mainPc' = "raised"
            /\ UNCHANGED << wallet_chunks, chunk, fetch >>
       ELSE /\ mainPc' = "gather"
            /\ wallet_chunks' = WalletChunks(wallets)
            /\ chunk' = [c \in DOMAIN WalletChunks(wallets) |-> NoChunk]
            /\ fetch' = [f \in (DOMAIN WalletChunks(wallets)) \X NetIds |-> NoFetch]
    /\ UNCHANGED << networks, wallets, REQUEST_SEMAPHORE, last_request_time,
                    current_rpc_index, report, returned_urls, completed >>

\* Lines 212-223: gather hands over the chunk results in the order of the tasks;
\* an exception of a chunk task is raised out of evm_checker.
FinishBatch ==
    /\ mainPc = "gather"
    /\ \/ /\ \A c \in ChunkIds : chunk[c].pc = "returned"
          /\ report' = Flatten([c \in ChunkIds |-> chunk[c].wallet_balances_list])
          /\ mainPc' = "returned"
       \/ /\ \E c \in ChunkIds : chunk[c].pc = "raised"
          /\ mainPc' = "raised"
          /\ UNCHANGED report
    /\ UNCHANGED << returned_urls, completed >>
    /\ UNCHANGED << networks, wallets, wallet_chunks, chunk, fetch, REQUEST_SEMAPHORE,
                    last_request_time, current_rpc_index >>

\* ------------------------------------------------------- process_wallet_chunk
\* Line 147 is the only handler between a fetch and the wallet loop, line 189
\* the only one between the wallet loop and evm_checker.
NewFetch(n) ==
    [pc |-> "acquire", attempt |-> 0, rpc_url |-> networks[n].rpcs[1].url,
     permit |-> FALSE, wake |-> 0, ret |-> Decimal(0), urls |-> <<>>]

RECURSIVE RunLoop(_, _, _, _)
\* Lines 164-195 from the wallet at position i on, up to the next suspension:
\* a wallet whose strip() raises (AttributeError for an object that is not a
\* str) is recorded by the handler of line 189 and the loop goes on; the first
\* wallet that can be stripped is fanned out and the task waits in gather.
RunLoop(chunks, c, i, list) ==
    IF i > Len(chunks[c])
    THEN [pc |-> "returned", i |-> i, wallet_balances_list |-> list]
    ELSE IF chunks[c][i].type = "str"
    THEN [pc |-> "gather", i |-> i, wallet_balances_list |-> list]
    ELSE IF WalletCatches("AttributeError")
    THEN RunLoop(chunks, c, i + 1, Append(list, ErrorWallet(chunks[c][i], "AttributeError")))
    ELSE [pc |-> "raised", i |-> i, wallet_balances_list |-> list]

\* The fetches of chunk c once its loop has run on: one new fetch per network
\* when it waits in gather, none otherwise.
Fanout(c, task) ==
    [f \in FetchIds |->
        IF f[1] # c THEN fetch[f]
        ELSE IF task.pc = "gather" THEN NewFetch(f[2]) ELSE NoFetch]

\* Line 195: a chunk task that returns is the next one to have completed.
Completed(c, task) == IF task.pc = "returned" THEN Append(completed, c) ELSE completed

\* The chunk task runs for the first time.
StartChunk(c) ==
    /\ mainPc = "gather"
    /\ chunk[c].pc = "loop"
    /\ LET task == RunLoop(wallet_chunks, c, 1, <<>>)
       IN  /\ chunk' = [chunk EXCEPT ![c] = task]
           /\ fetch' = Fanout(c, task)
           /\ completed' = Completed(c, task)
    /\ UNCHANGED << networks, wallets, mainPc, wallet_chunks, REQUEST_SEMAPHORE,
                    last_request_time, current_rpc_index, report, returned_urls >>

\* Lines 177-187: gather returns the balances in the order of the tasks; the
\* wallet is recorded and the loop runs on.  An exception of a fetch would be
\* raised by gather into the handler of line 189.
FinishWallet(c) ==
    /\ chunk[c].pc = "gather"
    /\ \A n \in NetIds : fetch[<<c, n>>].pc \in {"done", "raised"}
    /\ LET wallet == wallet_chunks[c][chunk[c].i]
           address == Str(Strip(wallet.chars))
           balances == [n \in NetIds |-> fetch[<<c, n>>].ret]
           failed == \E n \in NetIds : fetch[<<c, n>>].pc = "raised"
           wallet_balances ==
               IF failed THEN ErrorWallet(wallet, "Exception")
               ELSE AddBalances(NewWalletBalances(address), balances, 1)
           task ==
               IF failed /\ ~WalletCatches("Exception")
               THEN [chunk[c] EXCEPT !.pc = "raised"]
               ELSE RunLoop(wallet_chunks, c, chunk[c].i + 1,
                            Append(chunk[c].wallet_balances_list, wallet_balances))
       IN  /\ chunk' = [chunk EXCEPT ![c] = task]
           /\ fetch' = Fanout(c, task)
           /\ completed' = Completed(c, task)
    /\ UNCHANGED << networks, wallets, mainPc, wallet_chunks, REQUEST_SEMAPHORE,
                    last_request_time, current_rpc_index, report, returned_urls >>

\* ---------------------------------------------------- get_balance_for_network
NameOf(f) == networks[f[2]].name
retries(f) == Len(networks[f[2]].rpcs)

\* A semaphore that never blocks.
Locked_Never == FALSE

\* asyncio.Semaphore.locked()
Locked == REQUEST_SEMAPHORE = 0

\* Lines 116-119 with 93-98: take a permit, then either sleep for the rest of
\* the interval or record the time and send the request.
Acquire(f) ==
    /\ fetch[f].pc = "acquire"
    /\ ~Locked
    /\ REQUEST_SEMAPHORE' = REQUEST_SEMAPHORE - 1
    /\ LET network == NameOf(f)
           current_time == now
           elapsed == current_time - last_request_time[network]
       IN  IF last_request_time[network] # None /\ elapsed < MIN_REQUEST_INTERVAL
           THEN /\ fetch' = [fetch EXCEPT ![f].pc = "sleep", ![f].permit = TRUE,
                                          ![f].wake = now + (MIN_REQUEST_INTERVAL - elapsed)]
                /\ UNCHANGED last_request_time
           ELSE /\ fetch' = [fetch EXCEPT ![f].pc = "post", ![f].permit = TRUE,
                                          ![f].urls = Append(@, fetch[f].rpc_url)]
                /\ last_request_time' = [last_request_time EXCEPT ![network] = now]
    /\ UNCHANGED << networks, wallets, mainPc, wallet_chunks, chunk, current_rpc_index,
                    report, returned_urls, completed >>

\* Lines 97-98 and 119: the sleep is over, record the time and send the request.
Wake(f) ==
    /\ fetch[f].pc = "sleep"
    /\ now >= fetch[f].wake
    /\ fetch' = [fetch EXCEPT ![f].pc = "post", ![f].wake = 0,
                               ![f].urls = Append(@, fetch[f].rpc_url)]
    /\ last_request_time' = [last_request_time EXCEPT ![NameOf(f)] = now]
    /\ UNCHANGED << networks, wallets, mainPc, wallet_chunks, chunk, REQUEST_SEMAPHORE,
                    current_rpc_index, report, returned_urls, completed >>

\* A semaphore released by hand at the end of the block only: an attempt that
\* leaves it early through an exception or `continue` keeps its permit.
Released_AtEndOfBlock(todo) ==
    IF todo.act \in {"return", "next"} THEN REQUEST_SEMAPHORE + 1 ELSE REQUEST_SEMAPHORE

\* A permit given back only by the attempt that returns a balance.
Released_OnSuccess(todo) ==
    IF todo.act = "return" THEN REQUEST_SEMAPHORE + 1 ELSE REQUEST_SEMAPHORE

\* Line 116: leaving `async with REQUEST_SEMAPHORE` gives the permit back,
\* whatever the attempt did (return, continue, exception, end of the block).
Released(todo) == REQUEST_SEMAPHORE + 1

\* The end of one iteration of the loop of line 107.
NextAttempt(f, url) ==
    IF fetch[f].attempt + 1 = retries(f)
    THEN [fetch[f] EXCEPT !.pc = "done", !.attempt = @ + 1, !.rpc_url = url,
                          !.permit = FALSE, !.ret = Decimal(0)]
    ELSE [fetch[f] EXCEPT !.pc = "acquire", !.attempt = @ + 1, !.rpc_url = url,
                          !.permit = FALSE]

\* Lines 119-157: the request is answered (or fails); the permit is released.
Respond(f, r) ==
    /\ fetch[f].pc = "post"
    /\ r \in ResponsesOf(RpcOf(NameOf(f), fetch[f].rpc_url))
    /\ REQUEST_SEMAPHORE' = Released(Classify(r))
    /\ LET network == NameOf(f)
           todo == Classify(r)
           next == get_next_rpc(network)
       IN  CASE todo.act = "return" ->
                  /\ fetch' = [fetch EXCEPT ![f].pc = "done", ![f].attempt = @ + 1,
                                            ![f].permit = FALSE, ![f].ret = todo.value]
                  /\ UNCHANGED current_rpc_index
             [] todo.act = "next" ->
                  /\ fetch' = [fetch EXCEPT ![f] = NextAttempt(f, fetch[f].rpc_url)]
                  /\ UNCHANGED current_rpc_index
             [] todo.act = "raise" /\ ~FetchCatches(todo.exc) ->
                  /\ fetch' = [fetch EXCEPT ![f].pc = "raised", ![f].permit = FALSE]
                  /\ UNCHANGED current_rpc_index
             [] OTHER ->
                  /\ fetch' = [fetch EXCEPT ![f] = NextAttempt(f, next.url)]
                  /\ current_rpc_index' = [current_rpc_index EXCEPT ![network] = next.index]
    /\ UNCHANGED << networks, wallets, mainPc, wallet_chunks, chunk, last_request_time,
                    report, returned_urls, completed >>

\* ----------------------------------------------------------------------- time
Max(a, b) == IF a > b THEN a ELSE b

\* One unit of time passes.  A time further back than MIN_REQUEST_INTERVAL is
\* kept at that distance (the code only tests elapsed < MIN_REQUEST_INTERVAL),
\* and a wake-up time that is due stays due.
Tick ==
    /\ mainPc = "gather"
    /\ last_request_time' =
          [name \in NetworkNames |->
              IF last_request_time[name] = None THEN None
              ELSE Max(last_request_time[name] - 1, now - MIN_REQUEST_INTERVAL)]
    /\ fetch' = [f \in FetchIds |->
                    IF fetch[f].pc = "sleep"
                    THEN [fetch[f] EXCEPT !.wake = Max(@ - 1, now)]
                    ELSE fetch[f]]
    /\ UNCHANGED << networks, wallets, mainPc, wallet_chunks, chunk, REQUEST_SEMAPHORE,
                    current_rpc_index, report, returned_urls, completed >>

Next ==
    \/ StartBatch
    \/ FinishBatch
    \/ \E c \in ChunkIds : StartChunk(c)
    \/ \E c \in ChunkIds : FinishWallet(c)
    \/ \E f \in FetchIds : Acquire(f)
    \/ \E f \in FetchIds : Wake(f)
    \/ \E f \in FetchIds : \E r \in Responses : Respond(f, r)
    \/ Tick

Spec == Init /\ [][Next]_vars

\* --------------------------------------------------------- the fair scheduler
\* The event loop runs every task that is ready, a sleep ends when its time has
\* come and session.post is called with a timeout (line 123), so a step that
\* can be taken is taken in the end.
InitLive == Init /\ Len(wallets) * Endpoints(networks) <= MaxLiveLoad

SpecLive == InitLive /\ [][Next]_vars /\ WF_vars(Next)

\* ------------------------------------------------------ the partition alone
\* Lines 203-204 on wallet lists of every length up to MaxWallets; the chunks
\* are built and nothing runs afterwards.
InitChunks ==
    /\ networks = ConfigSingle
    /\ \E length \in 0..MaxWallets, bad \in 0..MaxWallets :
          /\ bad <= length
          /\ wallets = WalletList(length, bad)
    /\ mainPc = "call"
    /\ wallet_chunks = <<>>
    /\ chunk = <<>>
    /\ fetch = <<>>
    /\ REQUEST_SEMAPHORE = SEMAPHORE_PERMITS
    /\ last_request_time = [name \in NetworkNames |-> None]
    /\ current_rpc_index = [name \in NetworkNames |-> 0]
    /\ report = <<>>
    /\ returned_urls = [name \in NetworkNames |-> <<>>]
    /\ completed = <<>>

NextChunks == StartBatch

SpecChunks == InitChunks /\ [][NextChunks]_vars

\* ------------------------------------------------------- the rotator alone
\* get_next_rpc called by one caller after another, nothing else running.
InitRotator ==
    /\ networks \in Configs \cup {ConfigTriple}
    /\ wallets = <<>>
    /\ mainPc = "call"
    /\ wallet_chunks = <<>>
    /\ chunk = <<>>
    /\ fetch = <<>>
    /\ REQUEST_SEMAPHORE = SEMAPHORE_PERMITS
    /\ last_request_time = [name \in NetworkNames |-> None]
    /\ current_rpc_index = [name \in NetworkNames |-> 0]
    /\ report = <<>>
    /\ returned_urls = [name \in NetworkNames |-> <<>>]
    /\ completed = <<>>

CallNextRpc(network) ==
    /\ Len(returned_urls[network]) < MaxCalls
    /\ current_rpc_index' = [current_rpc_index EXCEPT ![network] = get_next_rpc(network).index]
    /\ returned_urls' = [returned_urls EXCEPT ![network] = Append(@, get_next_rpc(network).url)]
    /\ UNCHANGED << networks, wallets, mainPc, wallet_chunks, chunk, fetch, REQUEST_SEMAPHORE,
                    last_request_time, report, completed >>

NextRotator == \E network \in NetworkNames : CallNextRpc(network)

SpecRotator == InitRotator /\ [][NextRotator]_vars

\* ===================================================================== claims
\* The address process_wallet_chunk records for a list item: the stripped
\* string, or the item itself when the handler of line 189 recorded it.
RecordedAddress(wallet) ==
    IF wallet.type = "str" THEN Str(Strip(wallet.chars)) ELSE wallet

Occurrences(seq, x) == Cardinality({i \in DOMAIN seq : seq[i] = x})

ReportAddresses == [i \in DOMAIN report |-> report[i].address]
InputAddresses == [i \in DOMAIN wallets |-> RecordedAddress(wallets[i])]

\* C1: for a non-empty wallet list evm_checker returns (it does not raise) a
\* report with as many wallets as input addresses, and every address occurs in
\* the report exactly as often as in the input.
C1_OneWalletPerAddress ==
    /\ wallets # <<>> => mainPc # "raised"
    /\ mainPc = "returned" =>
          /\ Len(report) = Len(wallets)
          /\ \A i \in DOMAIN wallets :
                Occurrences(ReportAddresses, InputAddresses[i])
                    = Occurrences(InputAddresses, InputAddresses[i])

C1_Witness ==
    /\ mainPc = "returned"
    /\ Len(wallet_chunks) >= 3
    /\ Len(report) = Len(wallets)
    /\ \E i \in DOMAIN wallets : wallets[i].type = "str" /\ wallets[i] # report[i].address

\* A request is sent in this step by fetch f.
Dispatches(f) == fetch[f].pc # "post" /\ fetch'[f].pc = "post"

\* C2: whenever a request is sent to a network, at least MIN_REQUEST_INTERVAL
\* has passed since the previous request sent to that network.
C2_MinInterval ==
    [][\A f \in FetchIds :
          Dispatches(f) =>
              \/ last_request_time[NameOf(f)] = None
              \/ now - last_request_time[NameOf(f)] >= MIN_REQUEST_INTERVAL]_vars

Holders == {f \in FetchIds : fetch[f].permit}

\* C3: at most 3 fetches hold a permit of REQUEST_SEMAPHORE, the free permits
\* and the holders add up to 3, and a fetch whose request is in flight holds one.
C3_AtMostThreeInFlight ==
    /\ Cardinality(Holders) <= 3
    /\ REQUEST_SEMAPHORE >= 0
    /\ REQUEST_SEMAPHORE + Cardinality(Holders) = 3
    /\ \A f \in FetchIds : fetch[f].pc = "post" => f \in Holders

C3_Witness ==
    /\ Cardinality({f \in FetchIds : fetch[f].pc = "post"}) = 3
    /\ \E f \in FetchIds : fetch[f].pc = "acquire"

\* The networks of the failover scenario: two endpoints, the first always
\* answers 429, the second always answers with a balance.
FailoverNets ==
    {n \in NetIds : /\ Len(networks[n].rpcs) = 2
                    /\ networks[n].rpcs[1].mode = "limited"
                    /\ networks[n].rpcs[2].mode = "healthy"}

\* C4: every fetch on a network of the failover scenario returns the balance
\* the second endpoint serves.
C4_FailoverFindsEndpoint ==
    \A f \in FetchIds :
        f[2] \in FailoverNets /\ fetch[f].pc = "done" =>
            fetch[f].ret = ToEther(HexToInt(networks[f[2]].rpcs[2].hex))

\* The attempt of fetch f ends in this step.
AttemptEnds(f) == fetch[f].pc = "post" /\ fetch'[f].pc # "post"

\* C5: an attempt never ends in an exception of the fetch; an attempt answered
\* by an endpoint that always serves a balance ends the fetch with that balance;
\* a failed attempt ends the fetch with the zero balance exactly when it was the
\* N-th one, and starts another attempt otherwise.
C5_RetryLoop ==
    [][\A f \in FetchIds :
          AttemptEnds(f) =>
              LET rpc == RpcOf(NameOf(f), fetch[f].rpc_url)
                  served == ToEther(HexToInt(rpc.hex))
                  after == fetch'[f]
              IN  /\ after.pc \in {"done", "acquire"}
                  /\ after.attempt = fetch[f].attempt + 1
                  /\ after.attempt <= retries(f)
                  /\ rpc.mode = "healthy" => after.pc = "done" /\ after.ret = served
                  /\ rpc.mode \in {"limited", "broken"} =>
                        IF after.attempt = retries(f)
                        THEN after.pc = "done" /\ after.ret = Decimal(0)
                        ELSE after.pc = "acquire"
                  /\ after.pc = "done" =>
                        \/ after.ret = served /\ rpc.mode \notin {"limited", "broken"}
                        \/ after.ret = Decimal(0) /\ after.attempt = retries(f)
                  /\ after.pc = "acquire" => after.attempt < retries(f)]_vars

C5_Witness ==
    \E f \in FetchIds :
        /\ retries(f) = 2
        /\ fetch[f].pc = "done"
        /\ fetch[f].attempt = 2
        /\ fetch[f].ret = Decimal(0)

\* C6: the wallet recorded when a fan-out completes has one entry per configured
\* network, the n-th entry names the n-th network and carries what the fetch
\* of the n-th network returned.
C6_ConfiguredOrder ==
    [][\A c \in ChunkIds :
          chunk[c].pc = "gather" /\ chunk'[c] # chunk[c] =>
              LET before == chunk[c].wallet_balances_list
                  list == chunk'[c].wallet_balances_list
              IN  /\ Len(list) > Len(before)
                  /\ Len(list[Len(before) + 1].balances) = Len(networks)
                  /\ \A n \in NetIds :
                        /\ list[Len(before) + 1].balances[n].network = networks[n].name
                        /\ list[Len(before) + 1].balances[n].balance = fetch[<<c, n>>].ret]_vars

C6_Witness ==
    \E c \in ChunkIds : \E k \in DOMAIN chunk[c].wallet_balances_list :
        LET balances == chunk[c].wallet_balances_list[k].balances
        IN  /\ Len(balances) = 3
            /\ IsPositive(balances[1].balance)
            /\ ~IsPositive(balances[2].balance)

\* C7: no exception leaves a chunk task or evm_checker; in the returned report
\* a wallet whose fan-out raised has the single entry ("ERROR", 0), and every
\* other wallet of the input has one entry per configured network.
C7_WalletFailureIsolated ==
    /\ \A c \in ChunkIds : chunk[c].pc # "raised"
    /\ wallets # <<>> => mainPc # "raised"
    /\ mainPc = "returned" =>
          /\ Len(report) = Len(wallets)
          /\ \A i \in DOMAIN wallets :
                IF wallets[i].type # "str"
                THEN /\ report[i].address = wallets[i]
                     /\ Len(report[i].balances) = 1
                     /\ report[i].balances[1].network = "ERROR"
                     /\ report[i].balances[1].balance = Decimal(0)
                ELSE /\ report[i].address = RecordedAddress(wallets[i])
                     /\ Len(report[i].balances) = Len(networks)
                     /\ \A n \in NetIds : report[i].balances[n].network # "ERROR"

C7_Witness ==
    /\ mainPc = "returned"
    /\ Len(wallet_chunks) >= 2
    /\ \E c \in ChunkIds :
          /\ Len(wallet_chunks[c]) = 2
          /\ wallet_chunks[c][1].type # "str"
          /\ chunk[c].wallet_balances_list[1].balances[1].network = "ERROR"
          /\ Len(chunk[c].wallet_balances_list) = 2
          /\ chunk[c].wallet_balances_list[2].balances[1].network # "ERROR"

\* C8: the k-th call of get_next_rpc on a network with N endpoints returns
\* endpoint ((k - 1) mod N) + 1 of the configured list: the first N calls
\* return the list in order and the next call returns the first endpoint again.
C8_RoundRobin ==
    \A name \in NetworkNames : \A k \in DOMAIN returned_urls[name] :
        returned_urls[name][k] = Urls(name)[((k - 1) % Len(rpc_list(name))) + 1]

C8_Witness ==
    \E name \in NetworkNames :
        /\ Len(rpc_list(name)) = 3
        /\ Len(returned_urls[name]) = 4

\* Every balance entry recorded so far, in the chunk results and in the report.
RecordedEntries ==
    UNION ({ {wb.balances[n] : n \in DOMAIN wb.balances} :
               wb \in UNION {{chunk[c].wallet_balances_list[k] :
                                 k \in DOMAIN chunk[c].wallet_balances_list} : c \in ChunkIds} }
           \cup { {report[i].balances[n] : n \in DOMAIN report[i].balances} :
                    i \in DOMAIN report })

\* C9: an entry of network "BSC" has token "BNB", an entry of network "Polygon"
\* has token "POL", an entry of any other configured network has token "ETH".
C9_SymbolMapping ==
    \A e \in RecordedEntries :
        /\ e.network = "BSC" => e.token = "BNB"
        /\ e.network = "Polygon" => e.token = "POL"
        /\ e.network \in NetworkNames \ {"BSC", "Polygon"} => e.token = "ETH"

C9_Witness ==
    /\ mainPc = "returned"
    /\ \E i \in DOMAIN report :
          /\ Len(report[i].balances) = 3
          /\ report[i].balances[1] = NetworkBalance("BSC", ToEther(1), "BNB")
          /\ report[i].balances[2] = NetworkBalance("Polygon", Decimal(0), "POL")
          /\ report[i].balances[3].token = "ETH"

\* C10: the first request of a fetch goes to the endpoint at the rotation
\* cursor of its network.
C10_FirstAttemptAtCursor ==
    [][\A f \in FetchIds :
          Dispatches(f) /\ fetch[f].attempt = 0 =>
              fetch'[f].rpc_url = Urls(NameOf(f))[current_rpc_index[NameOf(f)] + 1]]_vars

\* C11: a fetch that runs with no other fetch on its network and fails on every
\* attempt has sent its N requests to N pairwise different endpoints.
C11_EveryEndpointOnce ==
    \A f \in FetchIds :
        Len(wallets) = 1 /\ fetch[f].pc = "done" /\ fetch[f].ret = Decimal(0) =>
            /\ Len(fetch[f].urls) = retries(f)
            /\ \A i, j \in DOMAIN fetch[f].urls :
                  i # j => fetch[f].urls[i] # fetch[f].urls[j]

\* The attempt of fetch f that ends in this step has failed: the fetch goes on
\* to another attempt or gives up with the zero balance.
AttemptFails(f) ==
    /\ AttemptEnds(f)
    /\ fetch'[f].pc = "acquire" \/ fetch'[f].ret = Decimal(0)

\* C12: the cursor of a network with N endpoints stays in 0..N-1, moves on by
\* one (modulo N) with every failed attempt on that network and only then; so
\* it equals the number of failed attempts so far modulo N.
C12_CursorCountsFailures ==
    /\ [](\A name \in NetworkNames :
            current_rpc_index[name] \in 0..(Len(rpc_list(name)) - 1))
    /\ [][\A name \in NetworkNames :
            current_rpc_index'[name] =
                IF \E f \in FetchIds : NameOf(f) = name /\ AttemptFails(f)
                THEN (current_rpc_index[name] + 1) % Len(rpc_list(name))
                ELSE current_rpc_index[name]]_vars

\* C13: every attempt that ends, on whatever route (valid result, rate limit,
\* error, exception, fall-through), gives its permit back, a fetch that is not
\* inside the block holds none, and once the batch has returned all
\* SEMAPHORE_PERMITS permits are available again.
C13_PermitsNeverLeak ==
    /\ [][\A f \in FetchIds :
            AttemptEnds(f) => /\ ~fetch'[f].permit
                              /\ REQUEST_SEMAPHORE' = REQUEST_SEMAPHORE + 1]_vars
    /\ [](\A f \in FetchIds : fetch[f].permit => fetch[f].pc \in {"sleep", "post"})
    /\ [](mainPc = "returned" =>
            REQUEST_SEMAPHORE = SEMAPHORE_PERMITS /\ Holders = {})

C13_Witness ==
    /\ mainPc = "returned"
    /\ REQUEST_SEMAPHORE = SEMAPHORE_PERMITS
    /\ Len(wallets) >= 2
    /\ \A i \in DOMAIN report :
          \E m, n \in DOMAIN report[i].balances :
              /\ report[i].balances[m].balance = Decimal(0)
              /\ report[i].balances[m].network # "ERROR"
              /\ IsPositive(report[i].balances[n].balance)

\* C14: under a fair scheduler every batch that has started its chunks
\* returns: no fetch waits for a permit for ever, no sleep lasts for ever and
\* no chunk waits for a fetch that never ends.
C14_BatchTerminates == (mainPc = "gather") ~> (mainPc = "returned")

C14_Witness ==
    /\ mainPc = "returned"
    /\ Len(wallets) * Endpoints(networks) = MaxLiveLoad
    /\ \E i \in DOMAIN report : \E n \in DOMAIN report[i].balances :
          report[i].balances[n].balance = Decimal(0)

\* The networks of chunk c whose fetch for the current wallet is in progress.
InProgress(c) == {n \in NetIds : fetch[<<c, n>>].pc \in {"acquire", "sleep", "post"}}

\* The chunks that have a wallet with fetches in progress.
BusyChunks == {c \in ChunkIds : InProgress(c) # {}}

\* C15: inside a chunk the wallets are resolved one after another in input
\* order: the fetches in progress belong to the wallet at the chunk's position,
\* all wallets before it are recorded, and the chunk moves to a later wallet
\* only when no fetch of the current one is in progress.  The chunks run side
\* by side, so at most one wallet per chunk and TARGET_CHUNKS wallets in all
\* have fetches in progress.
C15_TwoLevelConcurrency ==
    /\ [](\A c \in ChunkIds :
            InProgress(c) # {} =>
                /\ chunk[c].pc = "gather"
                /\ chunk[c].i \in DOMAIN wallet_chunks[c]
                /\ Len(chunk[c].wallet_balances_list) = chunk[c].i - 1
                /\ \A k \in 1..(chunk[c].i - 1) :
                      RecordedAddress(wallet_chunks[c][k]) =
                          chunk[c].wallet_balances_list[k].address)
    /\ [][\A c \in ChunkIds :
            mainPc = "gather" /\ chunk'[c].i # chunk[c].i =>
                /\ chunk'[c].i > chunk[c].i
                /\ InProgress(c) = {}]_vars
    /\ [](Cardinality(BusyChunks) <= TARGET_CHUNKS)

C15_Witness ==
    /\ Cardinality(BusyChunks) >= 3
    /\ \E c, d \in BusyChunks :
          /\ chunk[c].i = 2
          /\ chunk[c].wallet_balances_list[1].balances[1].network # "ERROR"
          /\ chunk[d].i = 1

\* ceil(a / b), without the code's (a + b - 1) // b.
Ceil(a, b) == IF a % b = 0 THEN a \div b ELSE a \div b + 1

\* C16: the chunks of a non-empty list of length L are contiguous slices whose
\* concatenation is the list; none is empty; all but the last hold ceil(L/5)
\* wallets, the last between 1 and ceil(L/5); there are at most 5 of them.
C16_ChunkPartition ==
    mainPc = "gather" /\ wallets # <<>> =>
        LET L == Len(wallets)
            count == Len(wallet_chunks)
            size == Ceil(L, 5)
        IN  /\ Flatten(wallet_chunks) = wallets
            /\ count \in 1..5
            /\ \A c \in 1..count :
                  /\ wallet_chunks[c] # <<>>
                  /\ wallet_chunks[c] =
                        SubSeq(wallets, (c - 1) * size + 1,
                               (c - 1) * size + Len(wallet_chunks[c]))
                  /\ c < count => Len(wallet_chunks[c]) = size
            /\ Len(wallet_chunks[count]) \in 1..size

C16_Witness ==
    /\ mainPc = "gather"
    /\ Len(wallets) = 11
    /\ Len(wallet_chunks) = 4
    /\ Len(wallet_chunks[4]) = 2

\* C17: a list of at least 5 wallets is split into exactly 5 chunks, and fewer
\* than 5 chunks are built only from fewer than 5 wallets.
C17_ExactlyFiveChunks ==
    mainPc = "gather" =>
        /\ Len(wallets) >= 5 => Len(wallet_chunks) = 5
        /\ Len(wallet_chunks) < 5 => Len(wallets) < 5

\* C18: evm_checker called with an empty list does not raise, and what it
\* returns is a report without wallets.
C18_EmptyInputReturns ==
    wallets = <<>> =>
        /\ mainPc # "raised"
        /\ mainPc = "returned" => report = <<>>

RECURSIVE Merged(_)
\* The recorded wallets of the chunks named by order, one chunk after another.
Merged(order) ==
    IF order = <<>> THEN <<>>
    ELSE chunk[Head(order)].wallet_balances_list \o Merged(Tail(order))

\* C19 as stated: the report holds the wallets of the chunks in the order in
\* which the chunks completed, in input order inside each chunk.
C19_MergeByCompletion == mainPc = "returned" => report = Merged(completed)

\* C19, amended: the report holds the wallets of the chunks in the order of
\* the chunks in the input (the order of the tasks handed to gather), whatever
\* order the chunks completed in, in input order inside each chunk.
C19_MergeByTaskOrder ==
    mainPc = "returned" =>
        /\ report = Merged([c \in ChunkIds |-> c])
        /\ \A c \in ChunkIds :
              /\ Len(chunk[c].wallet_balances_list) = Len(wallet_chunks[c])
              /\ \A k \in DOMAIN wallet_chunks[c] :
                    chunk[c].wallet_balances_list[k].address =
                        RecordedAddress(wallet_chunks[c][k])

C19_Witness ==
    /\ mainPc = "returned"
    /\ Len(completed) >= 3
    /\ completed[1] > completed[2]
    /\ report # Merged(completed)

\* C20: whatever the interleaving and the order in which the chunks complete,
\* the i-th wallet of the returned report is the wallet of the i-th input
\* address, trimmed.
C20_ReportInInputOrder ==
    mainPc = "returned" /\ wallets # <<>> =>
        /\ DOMAIN report = DOMAIN wallets
        /\ \A i \in DOMAIN wallets : report[i].address = RecordedAddress(wallets[i])

C20_Witness ==
    /\ mainPc = "returned"
    /\ Len(wallets) >= 5
    /\ completed[1] = Len(wallet_chunks)
    /\ completed[Len(completed)] = 1
    /\ \E c \in ChunkIds : Len(wallet_chunks[c]) >= 2
    /\ report[2].address = Str(<<98>>)

====
